---- MODULE Spec2Model ----
(***************************************************************************)
(* Birth-statistics dashboard (streamlit_app.py): the sidebar's            *)
(* normalise / filter / decode pipeline, the stored View                   *)
(* (session_state["filtered_df"]) and the aggregates computed from it.     *)
(*                                                                         *)
(* Cells.  A CSV cell is a pair <<kind, t>>:                               *)
(*   <<"na", 0>>   an empty cell (pandas NaN)                              *)
(*   <<"bad", 0>>  text that does not parse as a number ("abc")            *)
(*   <<"num", t>>  a numeric cell of value t/10 (t = 31 is 3.1)            *)
(*   <<"str", t>>  text that parses to the number t/10 ("2.7" is t = 27)   *)
(* Numbers are kept in tenths so that non-integer codes and weights are    *)
(* representable with integers.  An Int64 cell is <<"int", n>>.            *)
(*                                                                         *)
(* Labels.  The module is ASCII only, so the Korean labels of the source   *)
(* are romanised ("Seoul" is the source's label of code 11, and so on);    *)
(* "ALL" stands for the select boxes' first option.                        *)
(***************************************************************************)
EXTENDS Integers, Sequences, FiniteSets, TLC

VARIABLES df_reshaped, has_cohab, widgets, session_state, raised, panel, probe

vars == <<df_reshaped, has_cohab, widgets, session_state, raised, panel, probe>>

-----------------------------------------------------------------------------
(* Cells and the normaliser                                                *)

NA == <<"na", 0>>
Bad == <<"bad", 0>>
Num(t) == <<"num", t>>
Str(t) == <<"str", t>>
I64(n) == <<"int", n>>
TypeError == <<"TypeError", 0>>

\* pd.isna of a cell: only the empty cell, never unparsable text
isna(v) == v[1] = "na"

\* pd.to_numeric(s, errors="coerce"), one cell
to_numeric(v) == IF v[1] \in {"num", "str"} THEN Num(v[2]) ELSE NA

\* .astype("Int64") of a float cell: NaN becomes <NA>, an integral float its
\* integer, and a non-integral float is refused ("cannot safely cast")
astype_Int64(x) ==
    IF x = NA THEN NA
    ELSE IF x[2] % 10 = 0 THEN I64(x[2] \div 10)
    ELSE TypeError

\* to_int_series, one cell
to_int(v) == astype_Int64(to_numeric(v))

\* to_int_series(s, dropna) on a column: it raises when any cell is refused
to_int_series(s, dropna) ==
    LET x == [i \in 1..Len(s) |-> to_int(s[i])]
    IN  IF \E i \in 1..Len(s) : x[i] = TypeError
        THEN [raised |-> TRUE, values |-> <<>>]
        ELSE [raised |-> FALSE,
              values |-> IF dropna THEN SelectSeq(x, LAMBDA c : c # NA) ELSE x]

-----------------------------------------------------------------------------
(* Code dictionaries                                                       *)

NaN == "NaN"

REGION_MAP ==
    (11 :> "Seoul") @@ (21 :> "Busan") @@ (22 :> "Daegu") @@ (23 :> "Incheon") @@
    (24 :> "Gwangju") @@ (25 :> "Daejeon") @@ (26 :> "Ulsan") @@ (29 :> "Sejong") @@
    (31 :> "Gyeonggi") @@ (32 :> "Gangwon") @@ (33 :> "Chungbuk") @@ (34 :> "Chungnam") @@
    (35 :> "Jeonbuk") @@ (36 :> "Jeonnam") @@ (37 :> "Gyeongbuk") @@ (38 :> "Gyeongnam") @@
    (39 :> "Jeju")

\* a reversed dictionary {v: k for k, v in d.items()}
Reverse(d) ==
    [l \in {d[k] : k \in DOMAIN d} |-> CHOOSE k \in DOMAIN d : d[k] = l]

REGION_MAP_REV == Reverse(REGION_MAP)

AGE_MAP ==
    (1 :> "0-14") @@ (2 :> "15-19") @@ (3 :> "20-24") @@ (4 :> "25-29") @@
    (5 :> "30-34") @@ (6 :> "35-39") @@ (7 :> "40-44") @@ (8 :> "45-49") @@
    (9 :> "50+") @@ (99 :> "unknown")

MULTI_ORDER_MAP ==
    (1 :> "first") @@ (2 :> "second") @@ (3 :> "third") @@ (4 :> "fourth") @@
    (9 :> "unknown")

MULTI_TYPE_MAP ==
    (1 :> "single") @@ (2 :> "twin") @@ (3 :> "triplet+") @@ (9 :> "unknown")

MOTHER_TOTAL_CHILD_MAP ==
    (1 :> "1") @@ (2 :> "2") @@ (3 :> "3") @@ (4 :> "4") @@ (5 :> "5") @@
    (6 :> "6") @@ (7 :> "7") @@ (8 :> "8+") @@ (99 :> "unknown")

NATIONALITY_MAP ==
    (1 :> "born Korean") @@ (2 :> "naturalised") @@ (3 :> "foreign") @@
    (9 :> "unknown")

gender_map == (1 :> "M") @@ (2 :> "F")
rev_gender == Reverse(gender_map)

multiple_map == MULTI_TYPE_MAP
rev_multiple == Reverse(multiple_map)

marital_map == (1 :> "in wedlock") @@ (2 :> "out of wedlock")
rev_marital == Reverse(marital_map)

\* a lookup d[c] in place of Series.map: no label for a code that is no key
map_KeyError(c, d) == IF c[1] = "int" /\ c[2] \in DOMAIN d THEN d[c[2]] ELSE "KeyError"

\* Series.map(dict), one Int64 cell: the label of a key, NaN otherwise
map(c, d) == IF c[1] = "int" /\ c[2] \in DOMAIN d THEN d[c[2]] ELSE NaN

-----------------------------------------------------------------------------
(* Data frames.  A row is a record of cells; df rows carry their index     *)
(* label "idx", which boolean indexing preserves.  A frame is the rows     *)
(* computed so far, or the fact that a step has raised.                     *)

Frame(rows) == [raised |-> FALSE, rows |-> rows]
Raise == [raised |-> TRUE, rows |-> <<>>]

Col(rows, c) == [i \in 1..Len(rows) |-> rows[i][c]]

\* _df[mask]: the rows whose mask entry is True, in their order
BoolIndex(rows, mask) ==
    LET pos == SelectSeq([i \in 1..Len(rows) |-> i], LAMBDA i : mask[i])
    IN  [k \in 1..Len(pos) |-> rows[pos[k]]]

eq(c, k) == c = I64(k)
isin(c, S) == c[1] = "int" /\ c[2] \in S

\* _df[to_int_series(_df[c], dropna=False) == k]; a <NA> in the mask selects nothing
IntEq(f, c, k) ==
    IF f.raised THEN f
    ELSE LET x == to_int_series(Col(f.rows, c), FALSE)
         IN  IF x.raised THEN Raise
             ELSE Frame(BoolIndex(f.rows, [i \in 1..Len(f.rows) |-> eq(x.values[i], k)]))

\* _df[to_int_series(_df[c], dropna=False).isin(S)]
IntIsin(f, c, S) ==
    IF f.raised THEN f
    ELSE LET x == to_int_series(Col(f.rows, c), FALSE)
         IN  IF x.raised THEN Raise
             ELSE Frame(BoolIndex(f.rows, [i \in 1..Len(f.rows) |-> isin(x.values[i], S)]))

YearAll == <<"all", 0>>
ALL == "ALL"

-----------------------------------------------------------------------------
(* The sidebar's filter, lines 153-189, one operator per step               *)

FilterYear(f, w) ==
    IF w.selected_year # YearAll
    THEN IntEq(f, "year", w.selected_year[2])
    ELSE f

\* the region step without its "if selected_regions_name" guard
FilterRegions_NoGuard(f, w) ==
    LET selected_codes ==
            {REGION_MAP_REV[n] : n \in w.selected_regions_name \cap DOMAIN REGION_MAP_REV}
    IN  IntIsin(f, "sido_code", selected_codes)

FilterRegions(f, w) ==
    IF w.selected_regions_name # {}
    THEN LET selected_codes ==
                 {REGION_MAP_REV[n] : n \in w.selected_regions_name \cap DOMAIN REGION_MAP_REV}
         IN  IntIsin(f, "sido_code", selected_codes)
    ELSE f

FilterGenders(f, w) ==
    IF w.selected_genders # {}
    THEN IntIsin(f, "gender_code", {rev_gender[g] : g \in w.selected_genders})
    ELSE f

FilterMonths(f, w) ==
    IF w.selected_months # {}
    THEN IntIsin(f, "birth_month", w.selected_months)
    ELSE f

FilterMultiple(f, w) ==
    IF w.selected_multiple # ALL
    THEN IntEq(f, "multi_type_code", rev_multiple[w.selected_multiple])
    ELSE f

FilterMarital(f, w) ==
    IF w.selected_marital # ALL
    THEN IntEq(f, "marital_code", rev_marital[w.selected_marital])
    ELSE f

\* between with inclusive="neither"
between_exclusive(x, lo, hi) == x # NA /\ lo < x[2] /\ x[2] < hi

\* Series.between(lo, hi, inclusive="both"); NaN is in no range
between(x, lo, hi) == x # NA /\ lo <= x[2] /\ x[2] <= hi

\* lines 179-180: the weight column becomes numeric, then the range is applied
FilterWeight(f, w) ==
    IF f.raised THEN f
    ELSE LET conv == [i \in 1..Len(f.rows) |->
                         [f.rows[i] EXCEPT !.weight = to_numeric(@)]]
         IN  Frame(SelectSeq(conv,
                 LAMBDA r : between(r.weight, w.selected_wt[1], w.selected_wt[2])))

CoreColumns == {"year", "sido_code", "gender_code", "birth_month", "weight"}

\* lines 183-184: dropna(subset=[...]) looks at the columns as they are in _df
DropMissing(f, w) ==
    IF f.raised \/ ~w.exclude_na THEN f
    ELSE Frame(SelectSeq(f.rows, LAMBDA r : \A c \in CoreColumns : ~isna(r[c])))

\* the cohabitation column's "unknown" value, 999, in tenths
SentinelT == 999 * 10

\* the sentinel step left out
DropSentinel_Off(f, hasCohab) == f

\* lines 187-189: the column becomes numeric, then 999 is dropped (NaN != 999)
DropSentinel(f, hasCohab) ==
    IF f.raised \/ ~hasCohab THEN f
    ELSE LET conv == [i \in 1..Len(f.rows) |->
                         [f.rows[i] EXCEPT !.cohab = to_numeric(@)]]
         IN  Frame(SelectSeq(conv, LAMBDA r : r.cohab # Num(SentinelT)))

\* lines 192-204: the Int64 columns and the label columns
AddLabels(f) ==
    IF f.raised THEN f
    ELSE LET s(c) == to_int_series(Col(f.rows, c), FALSE)
             x == <<s("sido_code"), s("f_age_code"), s("m_age_code"),
                    s("multi_order_code"), s("multi_type_code"),
                    s("m_total_child_code"), s("f_nat_code"), s("m_nat_code")>>
         IN  IF \E k \in 1..Len(x) : x[k].raised
             THEN Raise
             ELSE Frame([i \in 1..Len(f.rows) |->
                    f.rows[i] @@
                    [sido_code_int  |-> x[1].values[i],
                     sido_name      |-> map(x[1].values[i], REGION_MAP),
                     f_age_code_int |-> x[2].values[i],
                     m_age_code_int |-> x[3].values[i],
                     f_age_label    |-> map(x[2].values[i], AGE_MAP),
                     m_age_label    |-> map(x[3].values[i], AGE_MAP),
                     multi_order    |-> map(x[4].values[i], MULTI_ORDER_MAP),
                     multi_type     |-> map(x[5].values[i], MULTI_TYPE_MAP),
                     m_total_child  |-> map(x[6].values[i], MOTHER_TOTAL_CHILD_MAP),
                     f_nat          |-> map(x[7].values[i], NATIONALITY_MAP),
                     m_nat          |-> map(x[8].values[i], NATIONALITY_MAP)]])

\* lines 154-189
ApplyFilter(df, hasCohab, w) ==
    DropSentinel(
      DropMissing(
        FilterWeight(
          FilterMarital(
            FilterMultiple(
              FilterMonths(
                FilterGenders(
                  FilterRegions(
                    FilterYear(Frame(df), w), w), w), w), w), w), w), w), hasCohab)

\* lines 154-204: the frame stored as session_state["filtered_df"]
FilteredDf(df, hasCohab, w) == AddLabels(ApplyFilter(df, hasCohab, w))

-----------------------------------------------------------------------------
(* The widgets' options and defaults, lines 121-151                        *)

\* lines 121-122: to_int_series over the whole year and region columns
OptionsRaise(df) ==
    \/ to_int_series(Col(df, "year"), TRUE).raised
    \/ to_int_series(Col(df, "sido_code"), TRUE).raised

Values(s) == {s[i] : i \in 1..Len(s)}

years(df) == {c[2] : c \in Values(to_int_series(Col(df, "year"), TRUE).values)}

present_codes(df) == {c[2] : c \in Values(to_int_series(Col(df, "sido_code"), TRUE).values)}

present_names(df) == {REGION_MAP[c] : c \in present_codes(df) \cap DOMAIN REGION_MAP}

months == 1..12

Min(S) == CHOOSE x \in S : \A y \in S : x <= y
Max(S) == CHOOSE x \in S : \A y \in S : y <= x

\* lines 143-144: the numeric weights of the loaded data
wt(df) == {x[2] : x \in {to_numeric(v) : v \in Values(Col(df, "weight"))} \ {NA}}

\* lines 145-147: the slider's range, (max(wt_min, 0), wt_max)
slider_range(df) == <<Max({Min(wt(df)), 0}), Max(wt(df))>>

\* the widgets' values on the first run
Defaults(df) ==
    [selected_year         |-> YearAll,
     selected_regions_name |-> present_names(df),
     selected_genders      |-> {gender_map[k] : k \in DOMAIN gender_map},
     selected_months       |-> months,
     selected_multiple     |-> ALL,
     selected_marital      |-> ALL,
     selected_wt           |-> slider_range(df),
     exclude_na            |-> TRUE]

-----------------------------------------------------------------------------
(* The panels' aggregates                                                  *)

RECURSIVE Sum(_)
Sum(xs) == IF xs = <<>> THEN 0 ELSE Head(xs) + Sum(Tail(xs))

\* a float result: NaN, or the fraction num/den
NaNValue == [nan |-> TRUE, num |-> 0, den |-> 1]

\* Series.mean(): NaN on an empty series
mean(xs) ==
    IF Len(xs) = 0 THEN NaNValue
    ELSE [nan |-> FALSE, num |-> Sum(xs), den |-> Len(xs)]

times100(m) == IF m.nan THEN m ELSE [m EXCEPT !.num = 100 * @]

\* float .astype(int): truncation towards zero, of a number kept in tenths
trunc(t) == IF t >= 0 THEN t \div 10 ELSE -((-t) \div 10)

\* line 224
multiple_ratio(rows) ==
    LET code(v) == IF to_numeric(v) = NA THEN 1 ELSE trunc(to_numeric(v)[2])
    IN  times100(mean([i \in 1..Len(rows) |->
            IF code(rows[i].multi_type_code) > 1 THEN 1 ELSE 0]))

\* lines 225-226
marital_ratio(rows) ==
    times100(mean([i \in 1..Len(rows) |->
        IF to_numeric(rows[i].marital_code) = Num(2 * 10) THEN 1 ELSE 0]))

\* the region labels in the order groupby sorts its keys (the labels' string order)
SidoNameOrder ==
    <<"Gangwon", "Gyeonggi", "Gyeongnam", "Gyeongbuk", "Gwangju", "Daegu", "Daejeon",
      "Busan", "Seoul", "Sejong", "Ulsan", "Incheon", "Jeonnam", "Jeonbuk", "Jeju",
      "Chungnam", "Chungbuk">>

\* groupby("sido_name").size().reset_index(name="births"): one entry per label
\* that occurs, keys sorted; a NaN key forms no group
groupby_size(rows) ==
    LET present == SelectSeq(SidoNameOrder,
                       LAMBDA l : \E i \in 1..Len(rows) : rows[i].sido_name = l)
    IN  [k \in 1..Len(present) |->
            [sido_name |-> present[k],
             births    |-> Cardinality({i \in 1..Len(rows) : rows[i].sido_name = present[k]})]]

\* sort_values("births", ascending=False): entries of equal count keep their order
RECURSIVE InsertDesc(_, _)
InsertDesc(e, s) ==
    IF s = <<>> THEN <<e>>
    ELSE IF Head(s).births >= e.births THEN <<Head(s)>> \o InsertDesc(e, Tail(s))
    ELSE <<e>> \o s

\* sort_values with ascending=True
RECURSIVE InsertAsc(_, _)
InsertAsc(e, s) ==
    IF s = <<>> THEN <<e>>
    ELSE IF Head(s).births <= e.births THEN <<Head(s)>> \o InsertAsc(e, Tail(s))
    ELSE <<e>> \o s

RECURSIVE sort_values_asc(_)
sort_values_asc(s) ==
    IF s = <<>> THEN <<>>
    ELSE InsertAsc(s[Len(s)], sort_values_asc(SubSeq(s, 1, Len(s) - 1)))

RECURSIVE sort_values(_)
sort_values(s) ==
    IF s = <<>> THEN <<>>
    ELSE InsertDesc(s[Len(s)], sort_values(SubSeq(s, 1, Len(s) - 1)))

TOP_N == 10

head(s, n) == SubSeq(s, 1, IF Len(s) < n THEN Len(s) ELSE n)

\* lines 266-269
region_counts(rows) == sort_values(groupby_size(rows))

\* lines 312-315
top_regions(rows) == head(sort_values(groupby_size(rows)), TOP_N)

\* line 345: the cohabitation values the mean is taken over
pdk(rows) ==
    LET x == [i \in 1..Len(rows) |->
                 IF to_numeric(rows[i].cohab) = Num(SentinelT) THEN NA
                 ELSE to_numeric(rows[i].cohab)]
    IN  SelectSeq(x, LAMBDA c : c # NA)

\* line 346: pdk.dropna().mean()
cohab_mean(rows) ==
    LET x == pdk(rows)
    IN  mean([i \in 1..Len(x) |-> x[i][2]])

NoPanel == [rendered |-> FALSE]

\* lines 218-348, the aggregates of df_filtered
Panel(rows, hasCohab) ==
    [rendered       |-> TRUE,
     total_births   |-> Len(rows),
     multiple_ratio |-> multiple_ratio(rows),
     marital_ratio  |-> marital_ratio(rows),
     region_counts  |-> region_counts(rows),
     top_regions    |-> top_regions(rows),
     pdk            |-> IF hasCohab THEN pdk(rows) ELSE <<>>,
     cohab_mean     |-> IF hasCohab THEN cohab_mean(rows) ELSE NaNValue]

-----------------------------------------------------------------------------
(* One run of the script, lines 93-348                                     *)

\* The run raises before line 206 (session_state keeps what it held and no
\* panel is drawn), or stores the new View and draws the panels from it.
Script(df, hasCohab, w, old) ==
    IF OptionsRaise(df) THEN [session_state |-> old, raised |-> TRUE, panel |-> NoPanel]
    ELSE LET f == FilteredDf(df, hasCohab, w)
         IN  IF f.raised
             THEN [session_state |-> old, raised |-> TRUE, panel |-> NoPanel]
             ELSE [session_state |-> ("filtered_df" :> f.rows),
                   raised        |-> FALSE,
                   panel         |-> Panel(f.rows, hasCohab)]

-----------------------------------------------------------------------------
(* The loaded data                                                         *)

MaxRows == 1

BaseRow ==
    [year |-> Num(20230), sido_code |-> Num(110), gender_code |-> Num(10),
     birth_month |-> Num(10), multi_type_code |-> Num(10), marital_code |-> Num(10),
     weight |-> Num(31), cohab |-> Num(50),
     f_age_code |-> Num(50), m_age_code |-> Num(50), multi_order_code |-> Num(10),
     m_total_child_code |-> Num(10), f_nat_code |-> Num(10), m_nat_code |-> Num(10)]

RowKinds ==
    { BaseRow,
      [BaseRow EXCEPT !.year = Num(20220), !.sido_code = Num(210), !.gender_code = Num(20),
                      !.birth_month = Num(20), !.multi_type_code = Num(20),
                      !.marital_code = Num(20), !.weight = Num(25), !.cohab = Num(SentinelT)],
      [BaseRow EXCEPT !.year = Bad, !.sido_code = Str(110), !.weight = Str(40),
                      !.cohab = NA, !.marital_code = Num(20)],
      [BaseRow EXCEPT !.sido_code = Num(990), !.gender_code = NA, !.weight = Num(30),
                      !.cohab = Bad, !.m_age_code = Num(990), !.f_nat_code = Num(-10)],
      [BaseRow EXCEPT !.sido_code = Num(210), !.multi_type_code = Num(15),
                      !.weight = Num(25)],
      [BaseRow EXCEPT !.sido_code = NA, !.birth_month = Bad, !.weight = NA,
                      !.cohab = Num(SentinelT)],
      [BaseRow EXCEPT !.sido_code = Num(115)] }

\* three births in Seoul, Seoul and Busan, and a record without a weight
ScenarioRows ==
    << [BaseRow EXCEPT !.weight = Num(25), !.cohab = Num(SentinelT)],
       [BaseRow EXCEPT !.gender_code = Num(20), !.weight = Num(31)],
       [BaseRow EXCEPT !.sido_code = Num(210), !.weight = Num(42), !.cohab = Bad],
       [BaseRow EXCEPT !.weight = NA] >>

\* births in eleven regions, two of them in Busan
TopRows ==
    LET codes == <<11, 21, 22, 23, 24, 25, 26, 29, 31, 32, 33, 21>>
    IN  [i \in 1..Len(codes) |->
            [BaseRow EXCEPT !.sido_code = Num(codes[i] * 10),
                            !.weight = IF i <= 10 THEN Num(31) ELSE Num(25)]]

\* a birth of 3.5 kg that every generated file starts with
AnchorRow == [BaseRow EXCEPT !.weight = Num(35)]

\* the loaded files: the slider of line 145 needs wt_min < wt_max
RowLists ==
    {s \in {<<AnchorRow>> \o t : t \in UNION {[1..n -> RowKinds] : n \in 1..MaxRows}}
            \cup {ScenarioRows, TopRows} :
        /\ wt(s) # {}
        /\ slider_range(s)[1] < slider_range(s)[2]}

\* the frame read from the CSV: the rows with their index labels, without
\* the cohabitation column when the file has none
load_data(rowlist, hasCohab) ==
    [i \in 1..Len(rowlist) |->
        LET r == rowlist[i] @@ [idx |-> i - 1]
        IN  IF hasCohab THEN r ELSE [c \in DOMAIN r \ {"cohab"} |-> r[c]]]

NoProbe == [op |-> "none"]

\* the state after the first run of the script
Init ==
    \E rowlist \in RowLists, hasCohab \in BOOLEAN :
        LET df == load_data(rowlist, hasCohab)
            w  == IF OptionsRaise(df) THEN <<>> ELSE Defaults(df)
            r  == Script(df, hasCohab, w, <<>>)
        IN  /\ df_reshaped = df
            /\ has_cohab = hasCohab
            /\ widgets = w
            /\ session_state = r.session_state
            /\ raised = r.raised
            /\ panel = r.panel
            /\ probe = NoProbe

-----------------------------------------------------------------------------
(* A widget changes and the script runs again                              *)

\* what a run leaves behind: line 206 and the panels
Store(w, r) ==
    /\ widgets' = w
    /\ session_state' = r.session_state
    /\ raised' = r.raised
    /\ panel' = r.panel

Rerun(w) ==
    /\ w # widgets
    /\ Store(w, Script(df_reshaped, has_cohab, w, session_state))
    /\ UNCHANGED <<df_reshaped, has_cohab, probe>>

\* the widgets exist once lines 120-122 have run without raising
Drawn == ~OptionsRaise(df_reshaped)

YearOptions(df) == {YearAll} \cup {I64(y) : y \in years(df)}

RegionChoices(df) ==
    {{}, present_names(df)} \cup {{n} : n \in present_names(df) \cap {"Seoul", "Busan"}}

GenderChoices == {{}, {"F"}, {"M", "F"}}

MonthChoices == {{}, {1}, months}

MultipleChoices == {ALL, "twin"}

MaritalChoices == {ALL, "out of wedlock"}

\* the full range, and [3.0, 4.0] cut to the slider's range
WeightChoices(df) ==
    LET full == slider_range(df)
        cut  == <<Max({30, full[1]}), Min({40, full[2]})>>
    IN  {full} \cup (IF cut[1] <= cut[2] THEN {cut} ELSE {})

SelectYear ==
    /\ Drawn
    /\ \E y \in YearOptions(df_reshaped) :
           Rerun([widgets EXCEPT !.selected_year = y])

SelectRegions ==
    /\ Drawn
    /\ \E S \in RegionChoices(df_reshaped) :
           /\ S \subseteq present_names(df_reshaped)
           /\ Rerun([widgets EXCEPT !.selected_regions_name = S])

SelectGenders ==
    /\ Drawn
    /\ \E S \in GenderChoices : Rerun([widgets EXCEPT !.selected_genders = S])

SelectMonths ==
    /\ Drawn
    /\ \E S \in MonthChoices : Rerun([widgets EXCEPT !.selected_months = S])

SelectMultiple ==
    /\ Drawn
    /\ \E m \in MultipleChoices : Rerun([widgets EXCEPT !.selected_multiple = m])

SelectMarital ==
    /\ Drawn
    /\ \E m \in MaritalChoices : Rerun([widgets EXCEPT !.selected_marital = m])

SlideWeight ==
    /\ Drawn
    /\ \E r \in WeightChoices(df_reshaped) :
           /\ slider_range(df_reshaped)[1] <= r[1] /\ r[1] <= r[2]
           /\ r[2] <= slider_range(df_reshaped)[2]
           /\ Rerun([widgets EXCEPT !.selected_wt = r])

ToggleExcludeNa ==
    /\ Drawn
    /\ Rerun([widgets EXCEPT !.exclude_na = ~@])

Next ==
    \/ SelectYear
    \/ SelectRegions
    \/ SelectGenders
    \/ SelectMonths
    \/ SelectMultiple
    \/ SelectMarital
    \/ SlideWeight
    \/ ToggleExcludeNa

Spec == Init /\ [][Next]_vars

-----------------------------------------------------------------------------
(* The normaliser and the decoder applied to single values                 *)

MaxCode == 40

ProbeCodes == (-MaxCode..MaxCode) \cup {99, 999}

ProbeTenths == (-(10 * MaxCode)..(10 * MaxCode)) \cup {990, 995, 9990}

ProbeCells == {NA, Bad} \cup {Num(t) : t \in ProbeTenths} \cup {Str(t) : t \in ProbeTenths}

\* the dictionary each label column is mapped with, lines 193-204
Dictionary ==
    [sido_name     |-> REGION_MAP,
     f_age_label   |-> AGE_MAP,
     m_age_label   |-> AGE_MAP,
     multi_order   |-> MULTI_ORDER_MAP,
     multi_type    |-> MULTI_TYPE_MAP,
     m_total_child |-> MOTHER_TOTAL_CHILD_MAP,
     f_nat         |-> NATIONALITY_MAP,
     m_nat         |-> NATIONALITY_MAP]

ProbeInit ==
    /\ df_reshaped = <<>>
    /\ has_cohab = FALSE
    /\ widgets = <<>>
    /\ session_state = <<>>
    /\ raised = FALSE
    /\ panel = NoPanel
    /\ probe = NoProbe

\* to_int_series(s, dropna=False) of a one-cell column
Normalize(v) ==
    /\ probe' = [op |-> "to_int_series", in |-> v, out |-> to_int_series(<<v>>, FALSE)]
    /\ UNCHANGED <<df_reshaped, has_cohab, widgets, session_state, raised, panel>>

\* .map(dictionary) of one Int64 cell
Decode(field, c) ==
    /\ probe' = [op |-> "map", field |-> field, in |-> c, out |-> map(c, Dictionary[field])]
    /\ UNCHANGED <<df_reshaped, has_cohab, widgets, session_state, raised, panel>>

ProbeNext ==
    \/ \E v \in ProbeCells : Normalize(v)
    \/ \E field \in DOMAIN Dictionary, c \in {NA} \cup {I64(n) : n \in ProbeCodes} :
           Decode(field, c)

ProbeSpec == ProbeInit /\ [][ProbeNext]_vars

-----------------------------------------------------------------------------
(* Properties                                                              *)

Stored == "filtered_df" \in DOMAIN session_state

View == session_state["filtered_df"]

Ids(rows) == [i \in 1..Len(rows) |-> rows[i].idx]

\* the loaded row a View row comes from
Loaded(r) == df_reshaped[r.idx + 1]

InRange(r) ==
    /\ to_numeric(r.weight) # NA
    /\ widgets.selected_wt[1] <= to_numeric(r.weight)[2]
    /\ to_numeric(r.weight)[2] <= widgets.selected_wt[2]

\* one loaded row against the predicates of the current filter spec, a
\* multiselect with nothing selected being no predicate
Admits(r) ==
    /\ widgets.selected_year # YearAll => to_int(r.year) = widgets.selected_year
    /\ widgets.selected_regions_name # {} =>
           map(to_int(r.sido_code), REGION_MAP) \in widgets.selected_regions_name
    /\ widgets.selected_genders # {} =>
           map(to_int(r.gender_code), gender_map) \in widgets.selected_genders
    /\ widgets.selected_months # {} => isin(to_int(r.birth_month), widgets.selected_months)
    /\ widgets.selected_multiple # ALL =>
           map(to_int(r.multi_type_code), MULTI_TYPE_MAP) = widgets.selected_multiple
    /\ widgets.selected_marital # ALL =>
           map(to_int(r.marital_code), marital_map) = widgets.selected_marital
    /\ InRange(r)
    /\ widgets.exclude_na => \A c \in CoreColumns \ {"weight"} : ~isna(r[c])
    /\ has_cohab => to_numeric(r.cohab) # Num(SentinelT)

EmptySelection ==
    \/ widgets.selected_regions_name = {}
    \/ widgets.selected_genders = {}
    \/ widgets.selected_months = {}

C2_SentinelExcluded ==
    has_cohab =>
        /\ Stored => \A i \in 1..Len(View) : View[i].cohab # Num(SentinelT)
        /\ ~raised =>
               /\ \A i \in 1..Len(panel.pdk) :
                      panel.pdk[i][1] = "num" /\ panel.pdk[i] # Num(SentinelT)
               /\ panel.pdk = SelectSeq(Col(View, "cohab"),
                                  LAMBDA c : c[1] = "num" /\ c # Num(SentinelT))
               /\ panel.pdk # <<>> =>
                      /\ ~panel.cohab_mean.nan
                      /\ panel.cohab_mean.num = Sum([i \in 1..Len(panel.pdk) |-> panel.pdk[i][2]])
                      /\ panel.cohab_mean.den = Len(panel.pdk)

\* rows with cohabitation 999 and 5 (and one unparsable) loaded: the mean is 5.0
C2_Witness ==
    /\ has_cohab /\ ~raised
    /\ \E i \in 1..Len(df_reshaped) : df_reshaped[i].cohab = Num(SentinelT)
    /\ \E i \in 1..Len(df_reshaped) : df_reshaped[i].cohab = Num(50)
    /\ Len(View) = 2
    /\ panel.cohab_mean = [nan |-> FALSE, num |-> 50, den |-> 1]

IsZero(x) == ~x.nan /\ x.num = 0
InPercent(x) == ~x.nan /\ 0 <= x.num /\ x.num <= 100 * x.den

\* C3: each ratio metric of a run is in [0, 100] on a non-empty View and is
\* exactly 0 on an empty View.
C3_RatioBounds ==
    ~raised =>
        /\ View # <<>> => InPercent(panel.multiple_ratio) /\ InPercent(panel.marital_ratio)
        /\ View = <<>> => IsZero(panel.multiple_ratio) /\ IsZero(panel.marital_ratio)

\* C4: with dropMissingCore on, no row of the View of the run has a year,
\* region code, gender code, month or weight that is missing or unparsable.
C4_NoMissingCore ==
    (~raised /\ widgets.exclude_na) =>
        \A i \in 1..Len(View) : \A c \in CoreColumns : to_numeric(View[i][c]) # NA

\* C5: to_int_series(dropna=False) never raises; an unparsable or missing
\* value gives missing and a number gives its truncation to an integer.
C5_NormalizerTotal ==
    probe.op = "to_int_series" =>
        /\ ~probe.out.raised
        /\ probe.out.values =
               << IF to_numeric(probe.in) = NA THEN NA
                  ELSE I64(trunc(to_numeric(probe.in)[2])) >>

OthersInactive ==
    /\ widgets.selected_year = YearAll
    /\ widgets.selected_regions_name = {}
    /\ widgets.selected_genders = {}
    /\ widgets.selected_months = {}
    /\ widgets.selected_multiple = ALL
    /\ widgets.selected_marital = ALL
    /\ ~widgets.exclude_na
    /\ ~has_cohab

\* C6: a row is in the View of a run only if its weight is a number within
\* the selected range, bounds included, with dropMissingCore on or off; and
\* with every other predicate inactive (the sentinel rule is one of them: it
\* is inactive when the data has no cohabitation column) the filter does not
\* raise and returns exactly the in-range rows, in their order.
C6_WeightRange ==
    /\ ~raised => \A i \in 1..Len(View) :
                      /\ InRange(Loaded(View[i]))
                      /\ View[i].weight = to_numeric(Loaded(View[i]).weight)
    /\ (~OptionsRaise(df_reshaped) /\ OthersInactive) =>
           /\ ~ApplyFilter(df_reshaped, has_cohab, widgets).raised
           /\ Ids(ApplyFilter(df_reshaped, has_cohab, widgets).rows)
                  = Ids(SelectSeq(df_reshaped, InRange))
           /\ ~raised => Ids(View) = Ids(SelectSeq(df_reshaped, InRange))

\* weights 2.5, 3.1, 4.2 and a missing one with the range [3.0, 4.0]: exactly the 3.1 row
C6_Witness ==
    /\ ~raised /\ OthersInactive
    /\ [i \in 1..Len(df_reshaped) |-> df_reshaped[i].weight] = <<Num(25), Num(31), Num(42), NA>>
    /\ widgets.selected_wt = <<30, 40>>
    /\ Ids(View) = <<1>>

\* C7: the stored View is the filter of the loaded record set under the
\* current (most recent) filter spec.
C7_ViewOfLatestSpec ==
    Stored =>
        /\ ~FilteredDf(df_reshaped, has_cohab, widgets).raised
        /\ View = FilteredDf(df_reshaped, has_cohab, widgets).rows

Dims == {"year", "regions", "genders", "months", "multiple", "marital", "weight", "exclude_na"}

\* the filter spec that keeps the predicates of w named in D and leaves the
\* others inactive
Restrict(w, D) ==
    [selected_year         |-> IF "year" \in D THEN w.selected_year ELSE YearAll,
     selected_regions_name |-> IF "regions" \in D THEN w.selected_regions_name ELSE {},
     selected_genders      |-> IF "genders" \in D THEN w.selected_genders ELSE {},
     selected_months       |-> IF "months" \in D THEN w.selected_months ELSE {},
     selected_multiple     |-> IF "multiple" \in D THEN w.selected_multiple ELSE ALL,
     selected_marital      |-> IF "marital" \in D THEN w.selected_marital ELSE ALL,
     selected_wt           |-> IF "weight" \in D THEN w.selected_wt
                               ELSE slider_range(df_reshaped),
     exclude_na            |-> IF "exclude_na" \in D THEN w.exclude_na ELSE FALSE]

\* filter(filter(r, A), B)
FilterTwice(A, B) ==
    LET first == ApplyFilter(df_reshaped, has_cohab, A)
    IN  IF first.raised THEN Raise ELSE ApplyFilter(first.rows, has_cohab, B)

\* C8: for every split of the current spec's predicates into A and B,
\* filtering with the whole spec gives what filtering with A and then with B
\* gives.
C8_Conjunction ==
    ~OptionsRaise(df_reshaped) =>
        \A D \in SUBSET Dims :
            ApplyFilter(df_reshaped, has_cohab, widgets)
                = FilterTwice(Restrict(widgets, D), Restrict(widgets, Dims \ D))

\* C8 on filters that complete: when neither side raises, the two agree.
ConjunctionUnlessRaised ==
    ~OptionsRaise(df_reshaped) =>
        \A D \in SUBSET Dims :
            LET whole == ApplyFilter(df_reshaped, has_cohab, widgets)
                twice == FilterTwice(Restrict(widgets, D), Restrict(widgets, Dims \ D))
            IN  (~whole.raised /\ ~twice.raised) => whole = twice

\* C9: decoding is total: the label of a code that is a key of the field's
\* dictionary is the dictionary's label, and that of any other integer code,
\* negative or unmapped, and of the missing code is the missing label.
C9_DecodeTotal ==
    probe.op = "map" =>
        LET d == Dictionary[probe.field]
        IN  /\ (probe.in # NA /\ probe.in[2] \in DOMAIN d) => probe.out = d[probe.in[2]]
            /\ (probe.in = NA \/ probe.in[2] \notin DOMAIN d) => probe.out = NaN

C9_Witness ==
    /\ probe.op = "map"
    /\ probe.field = "sido_name"
    /\ probe.in = I64(-3)
    /\ probe.out = NaN

LabelCount(l) == Cardinality({i \in 1..Len(View) : View[i].sido_name = l})

\* C10: the grouped count by region label has exactly one entry per label
\* that occurs in the View, none for the missing label, each with the number
\* of View rows of that label, ordered by count descending; the Top-10 is
\* its first at most 10 entries.
C10_RegionCounts ==
    ~raised =>
        LET rc == panel.region_counts
        IN  /\ \A i, j \in 1..Len(rc) : rc[i].sido_name = rc[j].sido_name => i = j
            /\ {rc[i].sido_name : i \in 1..Len(rc)}
                   = {View[i].sido_name : i \in 1..Len(View)} \ {NaN}
            /\ \A i \in 1..Len(rc) : rc[i].births = LabelCount(rc[i].sido_name)
            /\ \A i, j \in 1..Len(rc) : i < j => rc[i].births >= rc[j].births
            /\ Len(panel.top_regions) = (IF Len(rc) < 10 THEN Len(rc) ELSE 10)
            /\ \A i \in 1..Len(panel.top_regions) : panel.top_regions[i] = rc[i]

\* eleven regions in the View, Busan with two births: the ranking keeps ten
C10_Witness ==
    /\ ~raised
    /\ Len(panel.region_counts) = 11
    /\ panel.region_counts[1] = [sido_name |-> "Busan", births |-> 2]
    /\ Len(panel.top_regions) = 10

====
